---- MODULE Spec2Model ----
(***************************************************************************)
(* Layout reconstruction of pedigreepro-ocr (src/app.py): the two pure     *)
(* functions that turn the OCR engine's annotation list into reading-order *)
(* text, sort_pedigree_blocks_by_columns and sort_text_blocks_by_position. *)
(* A behaviour builds an annotation list (element 0 is the full text, the  *)
(* others are fragments with a bounding polygon) and then calls one of the *)
(* two functions on it; the outcome (a returned value or a raised          *)
(* exception) is kept in the state.                                        *)
(***************************************************************************)
EXTENDS Integers, Sequences, FiniteSets, TLC

VARIABLES text_annotations, pc, called, result

vars == <<text_annotations, pc, called, result>>

(***************************************************************************)
(* Bounds and input alphabets.                                             *)
(***************************************************************************)
\* Most fragments (annotations after element 0) of a general input.
MaxFrags == 3
\* Most fragments of a single-row input.
MaxRowFrags == 5
\* Fragment texts.
Texts == {"a", "b"}
\* Left edges of the polygons of a general input.
Lefts == {-1, 0, 1, 3}
\* Left edges of the six boxes of a single-row page: a negative one, gaps of
\* size 1, 2 and 3 between neighbours, gaps of the same size.
RowLefts == {-1, 0, 1, 3, 6, 8}
\* The word printed in the box at each left edge of the single-row page.
WordAt(left) ==
    CASE left = -1 -> "a" [] left = 0 -> "b" [] left = 1 -> "c"
      [] left = 3 -> "d" [] left = 6 -> "e" [] OTHER -> "f"
\* Top edges of the fragments' polygons.
Tops == {0, 1}

(***************************************************************************)
(* Python built-ins the functions use.                                     *)
(***************************************************************************)
Range(s) == {s[i] : i \in DOMAIN s}

\* min(list) of a non-empty list.
min(s) == CHOOSE m \in Range(s) : \A n \in Range(s) : m <= n

\* Tuple comparison k1 < k2 (tuples of integers of one length).
KeyLess(k1, k2) ==
    \E i \in 1..Len(k1) : k1[i] < k2[i] /\ \A j \in 1..(i - 1) : k1[j] = k2[j]

\* sorted(seq, key=...): keys[i] is the key of seq[i]. The sort is stable:
\* elements with equal keys keep their order in seq.
sorted(seq, keys) ==
    LET n == Len(seq)
        rank(i) == Cardinality({j \in 1..n : \/ KeyLess(keys[j], keys[i])
                                             \/ keys[j] = keys[i] /\ j < i}) + 1
    IN  [p \in 1..n |-> seq[CHOOSE i \in 1..n : rank(i) = p]]

\* list.sort(key=..., reverse=True): descending and still stable, elements
\* with equal keys keep their order in seq.
sorted_reverse(seq, keys) ==
    LET n == Len(seq)
        rank(i) == Cardinality({j \in 1..n : \/ KeyLess(keys[i], keys[j])
                                             \/ keys[j] = keys[i] /\ j < i}) + 1
    IN  [p \in 1..n |-> seq[CHOOSE i \in 1..n : rank(i) = p]]

\* sorted(set(list)): the distinct values in ascending order.
sorted_set(s) ==
    LET S == Range(s)
    IN  [p \in 1..Cardinality(S) |->
            CHOOSE x \in S : Cardinality({y \in S : y < x}) = p - 1]

\* '\n'.join(list of strings)
RECURSIVE join(_)
join(strs) ==
    IF Len(strs) = 0 THEN ""
    ELSE IF Len(strs) = 1 THEN strs[1]
    ELSE strs[1] \o "\n" \o join(Tail(strs))

\* list[:n]
Take(s, n) == SubSeq(s, 1, IF Len(s) < n THEN Len(s) ELSE n)

\* {} (a dict without keys)
EmptyDict == [k \in {} |-> 0]

\* The outcome of a call: a returned value or a raised exception.
Return(v) == [kind |-> "return", value |-> v]
Raise(e) == [kind |-> "raise", value |-> e]

(***************************************************************************)
(* Annotations.                                                            *)
(***************************************************************************)
\* A fragment's bounding polygon: the four corners of a box, or no vertex.
Box(left, top) ==
    << [x |-> left, y |-> top], [x |-> left + 1, y |-> top],
       [x |-> left + 1, y |-> top + 1], [x |-> left, y |-> top + 1] >>

Annotation(text, vertices) == [description |-> text, vertices |-> vertices]

\* Element 0: the whole text of the page.
FullText == Annotation("full", Box(-1, 0))

\* text_annotations[1:]
Fragments(annotations) == SubSeq(annotations, 2, Len(annotations))

(***************************************************************************)
(* sort_pedigree_blocks_by_columns                                         *)
(***************************************************************************)
\* The number of column boundaries of a 4-column pedigree.
NumBoundaries == 3

\* The number of blocks of a column listed in firstBlocksPerColumn.
PreviewLen == 5

\* One entry of blocks (center_x and center_y are computed after left and
\* top and never read).
Block(annotation) ==
    [text |-> annotation.description,
     left |-> min([i \in DOMAIN annotation.vertices |-> annotation.vertices[i].x]),
     top  |-> min([i \in DOMAIN annotation.vertices |-> annotation.vertices[i].y])]

\* x_positions without set(): the left of every block, repeats kept.
x_positions_with_repeats(blocks) ==
    LET lefts == [i \in DOMAIN blocks |-> blocks[i].left]
    IN  sorted(lefts, [i \in DOMAIN lefts |-> <<lefts[i]>>])

x_positions(blocks) == sorted_set([i \in DOMAIN blocks |-> blocks[i].left])

gaps(xs) ==
    [i \in 1..(Len(xs) - 1) |->
        [after_x |-> xs[i], gap_size |-> xs[i + 1] - xs[i], index |-> i - 1]]

\* top_3_gaps by an ascending sort read backwards: gaps of one size come out
\* in the reverse of their order in gs.
top_3_gaps_reversed(gs) ==
    LET asc == sorted(gs, [i \in DOMAIN gs |-> <<gs[i].gap_size>>])
    IN  Take([i \in DOMAIN asc |-> asc[Len(asc) + 1 - i]], NumBoundaries)

top_3_gaps(gs) ==
    Take(sorted_reverse(gs, [i \in DOMAIN gs |-> <<gs[i].gap_size>>]), NumBoundaries)

column_boundaries(top3) ==
    LET xs == [i \in DOMAIN top3 |-> top3[i].after_x]
    IN  sorted(xs, [i \in DOMAIN xs |-> <<xs[i]>>])

\* column_of with columns numbered from 0.
column_of_zero_based(x, boundaries) ==
    IF x <= boundaries[1] THEN 0
    ELSE IF x <= boundaries[2] THEN 1
    ELSE IF x <= boundaries[3] THEN 2
    ELSE 3

\* column_of with a block at a boundary put in the next column.
column_of_exclusive(x, boundaries) ==
    IF x < boundaries[1] THEN 1
    ELSE IF x < boundaries[2] THEN 2
    ELSE IF x < boundaries[3] THEN 3
    ELSE 4

column_of(x, boundaries) ==
    IF x <= boundaries[1] THEN 1
    ELSE IF x <= boundaries[2] THEN 2
    ELSE IF x <= boundaries[3] THEN 3
    ELSE 4

assign_columns(blocks, boundaries) ==
    [i \in DOMAIN blocks |->
        [text |-> blocks[i].text, left |-> blocks[i].left, top |-> blocks[i].top,
         column |-> column_of(blocks[i].left, boundaries)]]

\* col_counts that sets a column's count to 1 at each of its blocks.
col_counts_overwritten(blocks) ==
    [c \in {blocks[i].column : i \in DOMAIN blocks} |-> 1]

col_counts(blocks) ==
    [c \in {blocks[i].column : i \in DOMAIN blocks} |->
        Cardinality({i \in DOMAIN blocks : blocks[i].column = c})]

blocks_of_column(sorted_blocks, col) ==
    LET InCol(b) == b.column = col
        col_blocks == Take(SelectSeq(sorted_blocks, InCol), PreviewLen)
    IN  [i \in DOMAIN col_blocks |->
            [text |-> col_blocks[i].text, left |-> col_blocks[i].left,
             top |-> col_blocks[i].top]]

blocks_by_column(sorted_blocks) ==
    [column_1 |-> blocks_of_column(sorted_blocks, 1),
     column_2 |-> blocks_of_column(sorted_blocks, 2),
     column_3 |-> blocks_of_column(sorted_blocks, 3),
     column_4 |-> blocks_of_column(sorted_blocks, 4)]

texts_of(blocks) == [i \in DOMAIN blocks |-> blocks[i].text]

\* The return of the two early exits.
empty_result == [text |-> "", debug |-> EmptyDict]

\* fallback_debug without the warning.
fallback_debug_silent(blocks, xs) ==
    [totalBlocks |-> Len(blocks),
     uniqueXPositions |-> Len(xs)]

\* The debug dict of the simple-sort fallback.
fallback_debug(blocks, xs) ==
    [warning |-> "Not enough gaps detected",
     totalBlocks |-> Len(blocks),
     uniqueXPositions |-> Len(xs)]

\* The simple-sort fallback: left to right, then top to bottom.
simple_sort(blocks, xs) ==
    LET sorted_blocks ==
            sorted(blocks, [i \in DOMAIN blocks |-> <<blocks[i].left, blocks[i].top>>])
    IN  [text |-> join(texts_of(sorted_blocks)),
         debug |-> fallback_debug(blocks, xs)]

\* The blocks in pedigree order: by column, then top to bottom.
pedigree_sorted_blocks(blocks) ==
    sorted(blocks, [i \in DOMAIN blocks |-> <<blocks[i].column, blocks[i].top>>])

\* The debug dict of the column sort.
column_debug(blocks, boundaries, top3) ==
    [totalBlocks |-> Len(blocks),
     columnBoundaries |-> boundaries,
     blocksPerColumn |-> col_counts(blocks),
     firstBlocksPerColumn |-> blocks_by_column(pedigree_sorted_blocks(blocks)),
     top3Gaps |-> [i \in DOMAIN top3 |->
                      [after_x |-> top3[i].after_x, size |-> top3[i].gap_size]]]

column_sort(blocks, gs) ==
    LET top3 == top_3_gaps(gs)
        boundaries == column_boundaries(top3)
        with_columns == assign_columns(blocks, boundaries)
    IN  [text |-> join(texts_of(pedigree_sorted_blocks(with_columns))),
         debug |-> column_debug(with_columns, boundaries, top3)]

\* Whether building a block of some fragment raises: min() of no vertices.
HasEmptyPolygon(annotations) ==
    \E i \in 2..Len(annotations) : Len(annotations[i].vertices) = 0

\* sort_pedigree_blocks_by_columns without its two early exits.
sort_pedigree_without_early_exit(annotations) ==
    IF HasEmptyPolygon(annotations) THEN Raise("ValueError")
    ELSE LET frags == Fragments(annotations)
             blocks == [i \in DOMAIN frags |-> Block(frags[i])]
             xs == x_positions(blocks)
             gs == gaps(xs)
         IN  IF Len(gs) < NumBoundaries THEN Return(simple_sort(blocks, xs))
             ELSE Return(column_sort(blocks, gs))

sort_pedigree_blocks_by_columns(annotations) ==
    IF Len(annotations) <= 1 THEN Return(empty_result)
    ELSE IF HasEmptyPolygon(annotations) THEN Raise("ValueError")
    ELSE LET frags == Fragments(annotations)
             blocks == [i \in DOMAIN frags |-> Block(frags[i])]
             xs == x_positions(blocks)
             gs == gaps(xs)
         IN  IF Len(blocks) = 0 THEN Return(empty_result)
             ELSE IF Len(gs) < NumBoundaries THEN Return(simple_sort(blocks, xs))
             ELSE Return(column_sort(blocks, gs))

(***************************************************************************)
(* sort_text_blocks_by_position                                            *)
(***************************************************************************)
sort_text_blocks_by_position(annotations) ==
    IF Len(annotations) <= 1 THEN Return("")
    \* sum(x_coords) / len(x_coords) of no vertices divides by zero
    ELSE IF HasEmptyPolygon(annotations) THEN Raise("ZeroDivisionError")
    ELSE LET frags == Fragments(annotations)
             blocks == [i \in DOMAIN frags |-> Block(frags[i])]
             sorted_blocks ==
                 sorted(blocks, [i \in DOMAIN blocks |-> <<blocks[i].top, blocks[i].left>>])
         IN  Return(join(texts_of(sorted_blocks)))

(***************************************************************************)
(* The state machine.                                                      *)
(***************************************************************************)
Init ==
    /\ text_annotations = <<>>
    /\ pc = "input"
    /\ called = "none"
    /\ result = [kind |-> "none", value |-> ""]

\* The OCR engine reports the full text as element 0.
AddFullText ==
    /\ pc = "input"
    /\ Len(text_annotations) = 0
    /\ text_annotations' = <<FullText>>
    /\ UNCHANGED <<pc, called, result>>

\* The OCR engine reports one more fragment, with a box or with no vertex.
AddFragment ==
    /\ pc = "input"
    /\ Len(text_annotations) >= 1
    /\ Len(text_annotations) < MaxFrags + 1
    /\ \E t \in Texts, v \in {<<>>} \cup {Box(l, tp) : l \in Lefts, tp \in Tops} :
          text_annotations' = Append(text_annotations, Annotation(t, v))
    /\ UNCHANGED <<pc, called, result>>

\* The OCR engine reports one more fragment of the single-row page: the word
\* of one of its boxes (in any order, a box possibly more than once).
AddRowFragment ==
    /\ pc = "input"
    /\ Len(text_annotations) >= 1
    /\ Len(text_annotations) < MaxRowFrags + 1
    /\ \E l \in RowLefts :
          text_annotations' = Append(text_annotations, Annotation(WordAt(l), Box(l, 0)))
    /\ UNCHANGED <<pc, called, result>>

CallSortPedigree ==
    /\ pc = "input"
    /\ result' = sort_pedigree_blocks_by_columns(text_annotations)
    /\ called' = "sort_pedigree_blocks_by_columns"
    /\ pc' = "done"
    /\ UNCHANGED text_annotations

CallSortPosition ==
    /\ pc = "input"
    /\ result' = sort_text_blocks_by_position(text_annotations)
    /\ called' = "sort_text_blocks_by_position"
    /\ pc' = "done"
    /\ UNCHANGED text_annotations

Next == AddFullText \/ AddFragment \/ CallSortPedigree \/ CallSortPosition

Spec == Init /\ [][Next]_vars

NextRow == AddFullText \/ AddRowFragment \/ CallSortPedigree

SpecRow == Init /\ [][NextRow]_vars

(***************************************************************************)
(* What the claims speak of: the input of the call and its outcome.        *)
(***************************************************************************)
\* The number of columns of a pedigree.
NumColumns == 4

PedigreeCalled == pc = "done" /\ called = "sort_pedigree_blocks_by_columns"
PositionCalled == pc = "done" /\ called = "sort_text_blocks_by_position"
PedigreeReturned == PedigreeCalled /\ result.kind = "return"
Debug == result.value.debug

\* The fragments: the annotations after element 0.
FragIdx == 2..Len(text_annotations)
NumFrags == Cardinality(FragIdx)
SomeEmptyPolygon == \E i \in FragIdx : Len(text_annotations[i].vertices) = 0
NonDegenerate == ~SomeEmptyPolygon
LeftOf(i) ==
    LET vs == text_annotations[i].vertices IN min([k \in DOMAIN vs |-> vs[k].x])
TopOf(i) ==
    LET vs == text_annotations[i].vertices IN min([k \in DOMAIN vs |-> vs[k].y])
DistinctLefts == {LeftOf(i) : i \in FragIdx}

\* The call took the gap-clustering path: it reports column boundaries.
GapPathTaken == PedigreeReturned /\ "columnBoundaries" \in DOMAIN Debug
\* The call took the too-few-gaps path: non-empty polygons, at least one
\* fragment, fewer than NumColumns distinct left values.
TooFewGaps ==
    /\ PedigreeCalled /\ NumFrags >= 1 /\ NonDegenerate
    /\ Cardinality(DistinctLefts) < NumColumns

RECURSIVE SumOver(_, _)
SumOver(f, S) ==
    IF S = {} THEN 0
    ELSE LET c == CHOOSE c \in S : TRUE IN f[c] + SumOver(f, S \ {c})

CountOf(c) ==
    IF c \in DOMAIN Debug.blocksPerColumn THEN Debug.blocksPerColumn[c] ELSE 0

\* The 1-based index of the first boundary at or after x, else the last column.
FirstBoundaryColumn(x, bs) ==
    IF \E k \in DOMAIN bs : x <= bs[k]
    THEN CHOOSE k \in DOMAIN bs : x <= bs[k] /\ \A j \in 1..(k - 1) : x > bs[j]
    ELSE Len(bs) + 1

\* The listed blocks of column c (the first PreviewLen of the column, in
\* output order).
Listed(c) ==
    CASE c = 1 -> Debug.firstBlocksPerColumn.column_1
      [] c = 2 -> Debug.firstBlocksPerColumn.column_2
      [] c = 3 -> Debug.firstBlocksPerColumn.column_3
      [] OTHER -> Debug.firstBlocksPerColumn.column_4

\* The size of the gap after x, an observed left value other than the largest.
GapAfter(x) ==
    (CHOOSE y \in DistinctLefts : y > x /\ \A z \in DistinctLefts : z > x => y <= z) - x
Boundaries == {Debug.columnBoundaries[k] : k \in DOMAIN Debug.columnBoundaries}
MaxLeft == CHOOSE m \in DistinctLefts : \A x \in DistinctLefts : x <= m

\* The permutations of 1..n
Perms(n) == {f \in [1..n -> 1..n] : \A i, j \in 1..n : f[i] = f[j] => i = j}
\* The annotation list with its fragments in the order f.
Reordered(f) ==
    <<text_annotations[1]>> \o [i \in 1..NumFrags |-> text_annotations[f[i] + 1]]

(***************************************************************************)
(* Claims.                                                                 *)
(***************************************************************************)

\* C5, as stated: on an empty annotation list, or one holding only element 0,
\* sort_pedigree_blocks_by_columns returns the text "" and diagnostics with
\* totalBlocks = 0 and no warning, without raising.
C5_EmptyInputReportsZeroBlocks ==
    (PedigreeCalled /\ Len(text_annotations) <= 1) =>
        /\ result.kind = "return"
        /\ result.value.text = ""
        /\ "totalBlocks" \in DOMAIN Debug
        /\ Debug.totalBlocks = 0
        /\ "warning" \notin DOMAIN Debug

\* C5, amended: on an empty annotation list, or one holding only element 0,
\* sort_pedigree_blocks_by_columns returns the text "" and an empty
\* diagnostics dict (no totalBlocks field, no warning), without raising.
C5_EmptyInputLaw ==
    (PedigreeCalled /\ Len(text_annotations) <= 1) =>
        /\ result.kind = "return"
        /\ result.value.text = ""
        /\ DOMAIN Debug = {}

\* C5's case: the function was called on a list holding only element 0.
C5_Witness ==
    /\ PedigreeCalled
    /\ Len(text_annotations) = 1
    /\ result.kind = "return"

\* C6: when some fragment's polygon has no vertex, neither function raises:
\* the annotation is skipped with a warning and the other fragments still
\* appear in the output.
C6_DegenerateNeverFatal ==
    (pc = "done" /\ SomeEmptyPolygon) => result.kind = "return"

\* C1: the text sort_pedigree_blocks_by_columns returns does not depend on
\* the order of the fragments in the annotation list.
C1_OrderIndependent ==
    (PedigreeReturned /\ NumFrags >= 2) =>
        \A f \in Perms(NumFrags) :
            sort_pedigree_blocks_by_columns(Reordered(f)).value.text
                = result.value.text

C3_ColumnBounds ==
    GapPathTaken =>
        /\ DOMAIN Debug.blocksPerColumn \subseteq 1..NumColumns
        /\ CountOf(1) + CountOf(2) + CountOf(3) + CountOf(4) = NumFrags

\* C3's case: columns were assigned to a block with a negative left and to a
\* block beyond the largest boundary.
C3_Witness ==
    /\ GapPathTaken
    /\ \E i \in FragIdx : LeftOf(i) < 0
    /\ \E i \in FragIdx : LeftOf(i) > Debug.columnBoundaries[NumBoundaries]

ClaimedReadingOrder ==
    LET blocks == [i \in 1..NumFrags |->
                      [text |-> text_annotations[i + 1].description,
                       key |-> << FirstBoundaryColumn(LeftOf(i + 1), Debug.columnBoundaries),
                                  TopOf(i + 1), LeftOf(i + 1) >>]]
    IN  join(texts_of(sorted(blocks, [i \in DOMAIN blocks |-> blocks[i].key])))

\* C7: when the columns are detected, the returned text lists the fragments
\* by column, then slot, then top, then left: of two fragments of one group
\* with the same top, the one further left comes first.
C7_ReadingOrder ==
    GapPathTaken => result.value.text = ClaimedReadingOrder

\* C8: on the gap-clustering path there are exactly three reported boundaries,
\* strictly increasing, and every block's column is the 1-based index of the
\* first boundary at or after its left, else the last column.
C8_ColumnBoundaries ==
    GapPathTaken =>
        LET bs == Debug.columnBoundaries
        IN  /\ Len(bs) = NumColumns - 1
            /\ \A k \in 1..(Len(bs) - 1) : bs[k] < bs[k + 1]
            /\ \A c \in 1..NumColumns :
                  /\ CountOf(c) = Cardinality({i \in FragIdx :
                                      FirstBoundaryColumn(LeftOf(i), bs) = c})
                  /\ \A p \in DOMAIN Listed(c) :
                        FirstBoundaryColumn(Listed(c)[p].left, bs) = c

\* C8's case: boundaries were chosen while two of the chosen gaps have the
\* same size.
C8_Witness ==
    /\ GapPathTaken
    /\ \E p, q \in DOMAIN Debug.top3Gaps :
          p < q /\ Debug.top3Gaps[p].size = Debug.top3Gaps[q].size

\* C9: every boundary is an observed left other than the largest; no gap
\* that was not chosen is larger than a chosen one, and of two gaps of one
\* size the one at the smaller X is chosen first; top3Gaps lists the chosen
\* gaps with their sizes, largest first.
C9_GapSelection ==
    GapPathTaken =>
        LET others == (DistinctLefts \ {MaxLeft}) \ Boundaries
            top3 == Debug.top3Gaps
        IN  /\ Boundaries \subseteq DistinctLefts \ {MaxLeft}
            /\ Cardinality(Boundaries) = NumBoundaries
            /\ \A x \in others, b \in Boundaries :
                  /\ GapAfter(x) <= GapAfter(b)
                  /\ GapAfter(x) = GapAfter(b) => b < x
            /\ {top3[k].after_x : k \in DOMAIN top3} = Boundaries
            /\ \A k \in DOMAIN top3 : top3[k].size = GapAfter(top3[k].after_x)
            /\ \A k \in 1..(Len(top3) - 1) :
                  \/ top3[k].size > top3[k + 1].size
                  \/ /\ top3[k].size = top3[k + 1].size
                     /\ top3[k].after_x < top3[k + 1].after_x

\* C9's case: a gap was left out although a chosen gap has the same size.
C9_Witness ==
    /\ GapPathTaken
    /\ \E x \in (DistinctLefts \ {MaxLeft}) \ Boundaries, b \in Boundaries :
          GapAfter(x) = GapAfter(b)

\* C10: on the gap-clustering path each of the columns 1..4 holds at least
\* one block (blocksPerColumn has exactly the keys 1..4, every count >= 1),
\* and a block further left is never in a later column.
C10_NoEmptyColumn ==
    GapPathTaken =>
        /\ DOMAIN Debug.blocksPerColumn = 1..NumColumns
        /\ \A c \in 1..NumColumns : Debug.blocksPerColumn[c] >= 1
        /\ \A c \in 1..NumColumns : Len(Listed(c)) >= 1
        /\ \A c, d \in 1..NumColumns : \A p \in DOMAIN Listed(c), q \in DOMAIN Listed(d) :
              Listed(c)[p].left <= Listed(d)[q].left => c <= d

\* C10's case: the columns were detected and the smallest left is itself the
\* first boundary, so that column 1 holds only the blocks at that left.
C10_Witness ==
    /\ GapPathTaken
    /\ \A x \in DistinctLefts : Debug.columnBoundaries[1] <= x
    /\ Cardinality(DistinctLefts) > NumColumns

====
